---- MODULE Spec2Model ----
(***************************************************************************)
(* Question generation from documents: the completion parsers, the input  *)
(* validators and the request pipeline of the generation endpoints.       *)
(*                                                                         *)
(* A text is a sequence of one-character strings, so that strip, split,   *)
(* startswith, slicing and the marker regular expression are computed     *)
(* character by character as the Python code computes them.               *)
(***************************************************************************)
EXTENDS Integers, Sequences, FiniteSets, TLC

(***************************************************************************)
(* Python values                                                          *)
(***************************************************************************)

\* None, and a value that is not None (an optional is a sequence of length <= 1)
None == <<>>
Some(x) == <<x>>

\* truthiness of an Optional[str]: None and "" are falsy
Truthy(opt) == opt # None /\ opt[1] # <<>>

\* characters str.strip() removes (the ASCII whitespace of the alphabet used)
Whitespace == {" ", "\n", "\t", "\r"}

\* str.lstrip(): the text from its first character that is not whitespace
LStrip(s) ==
    IF \A i \in 1..Len(s) : s[i] \in Whitespace THEN <<>>
    ELSE SubSeq(s, CHOOSE i \in 1..Len(s) :
                        /\ s[i] \notin Whitespace
                        /\ \A j \in 1..(i - 1) : s[j] \in Whitespace,
                Len(s))

\* str.rstrip(): the text up to its last character that is not whitespace
RStrip(s) ==
    IF \A i \in 1..Len(s) : s[i] \in Whitespace THEN <<>>
    ELSE SubSeq(s, 1, CHOOSE i \in 1..Len(s) :
                           /\ s[i] \notin Whitespace
                           /\ \A j \in (i + 1)..Len(s) : s[j] \in Whitespace)

\* str.strip()
Strip(s) == RStrip(LStrip(s))

\* str.startswith(prefix)
StartsWith(s, prefix) ==
    /\ Len(s) >= Len(prefix)
    /\ SubSeq(s, 1, Len(prefix)) = prefix

\* s[n:]
SliceFrom(s, n) == SubSeq(s, n + 1, Len(s))

\* s[:n] for a length n >= 0
SliceTo(s, n) == SubSeq(s, 1, IF n < Len(s) THEN n ELSE Len(s))

\* the k-th smallest element of a set of positions (0 for k = 0)
NthOf(positions, k) ==
    IF k = 0 THEN 0
    ELSE CHOOSE p \in positions : Cardinality({q \in positions : q < p}) = k - 1

\* str.split(sep) for a one-character separator: every piece, empty ones kept
Split(s, sep) ==
    LET at == {i \in 1..Len(s) : s[i] = sep}
        n == Cardinality(at)
    IN [k \in 1..(n + 1) |->
            SubSeq(s, NthOf(at, k - 1) + 1,
                   IF k > n THEN Len(s) ELSE NthOf(at, k) - 1)]

\* str.split(sep, 1): at most one split, at the first separator
SplitOnce(s, sep) ==
    LET at == {i \in 1..Len(s) : s[i] = sep}
    IN IF at = {} THEN <<s>>
       ELSE LET p == NthOf(at, 1)
            IN <<SubSeq(s, 1, p - 1), SubSeq(s, p + 1, Len(s))>>

\* str.lower() on the letters of the alphabet used
UpperLetters ==
    <<"A", "B", "C", "D", "E", "F", "G", "H", "I", "J", "K", "L", "M",
      "N", "O", "P", "Q", "R", "S", "T", "U", "V", "W", "X", "Y", "Z">>
LowerLetters ==
    <<"a", "b", "c", "d", "e", "f", "g", "h", "i", "j", "k", "l", "m",
      "n", "o", "p", "q", "r", "s", "t", "u", "v", "w", "x", "y", "z">>

LowerChar(c) ==
    IF \E i \in 1..Len(UpperLetters) : UpperLetters[i] = c
    THEN LowerLetters[CHOOSE i \in 1..Len(UpperLetters) : UpperLetters[i] = c]
    ELSE c

Lower(s) == [i \in 1..Len(s) |-> LowerChar(s[i])]

(***************************************************************************)
(* re.split(r'Question \d+:', text)                                       *)
(***************************************************************************)

Digits == {"0", "1", "2", "3", "4", "5", "6", "7", "8", "9"}

QuestionWord == <<"Q", "u", "e", "s", "t", "i", "o", "n", " ">>

\* \d+ at position i of s: the number of digits from there on
DigitRun(s, i) ==
    Cardinality({k \in i..Len(s) : \A j \in i..k : s[j] \in Digits})

\* length of the match of the pattern at position i of s, 0 when there is none
MarkerMatch(s, i) ==
    IF ~(/\ i + Len(QuestionWord) - 1 <= Len(s)
         /\ SubSeq(s, i, i + Len(QuestionWord) - 1) = QuestionWord)
    THEN 0
    ELSE LET d == DigitRun(s, i + Len(QuestionWord))
             colon == i + Len(QuestionWord) + d
         IN IF d >= 1 /\ colon <= Len(s) /\ s[colon] = ":"
            THEN Len(QuestionWord) + d + 1
            ELSE 0

\* the pieces of text between the matches.  No two matches overlap (the pattern
\* starts with the only "Q" it can contain), so every match is one re.split uses
ReSplit(text) ==
    LET at == {i \in 1..Len(text) : MarkerMatch(text, i) > 0}
        n == Cardinality(at)
        EndOf(k) == IF k = 0 THEN 0
                    ELSE NthOf(at, k) + MarkerMatch(text, NthOf(at, k)) - 1
    IN [k \in 1..(n + 1) |->
            SubSeq(text, EndOf(k - 1) + 1,
                   IF k > n THEN Len(text) ELSE NthOf(at, k) - 1)]

(***************************************************************************)
(* parse_mcqs                                                             *)
(***************************************************************************)

\* a parser's outcome: the list it returns, or the exception it raises
Returned(records) == [raised |-> FALSE, value |-> records]
Raised == [raised |-> TRUE, value |-> <<>>]

\* options.setdefault(key, value): a key already set keeps its value
SetItemIfAbsent(options, key, value) ==
    [k \in DOMAIN options \cup {key} |->
        IF k \in DOMAIN options THEN options[k] ELSE value]

\* options[key] = value
SetItem(options, key, value) ==
    [k \in DOMAIN options \cup {key} |-> IF k = key THEN value ELSE options[k]]

EmptyDict == [k \in {} |-> <<>>]

OptionLetters == <<"A", "B", "C", "D">>

CorrectAnswerPrefix ==
    <<"C", "o", "r", "r", "e", "c", "t", " ", "A", "n", "s", "w", "e", "r", ":">>

\* is the line an option line, and for which letter (0: none)
OptionIndex(line) ==
    IF \E i \in 1..4 : StartsWith(line, <<OptionLetters[i], ")">>)
    THEN CHOOSE i \in 1..4 : StartsWith(line, <<OptionLetters[i], ")">>)
    ELSE 0

\* line.split(':')[2].strip(): an index one too far
CorrectAnswerOfNextPiece(line) ==
    LET parts == Split(line, ":")
    IN IF Len(parts) < 3 THEN None ELSE Some(Strip(parts[3]))

\* line.split(':')[1].strip(): None stands for the IndexError of a missing piece
CorrectAnswerOf(line) ==
    LET parts == Split(line, ":")
    IN IF Len(parts) < 2 THEN None ELSE Some(Strip(parts[2]))

\* the body of the loop over lines[1:]
McqLine(st, rawline) ==
    LET line == Strip(rawline)
        o == OptionIndex(line)
    IN IF o > 0
       THEN [st EXCEPT !.options =
                SetItem(st.options, OptionLetters[o], Strip(SliceFrom(line, 2)))]
       ELSE IF StartsWith(line, CorrectAnswerPrefix)
            THEN LET a == CorrectAnswerOf(line)
                 IN IF a = None
                    THEN [st EXCEPT !.raised = TRUE]
                    ELSE [st EXCEPT !.correct_answer = a]
            ELSE st

RECURSIVE McqLines(_, _, _)
McqLines(lines, i, st) ==
    IF i > Len(lines) \/ st.raised THEN st
    ELSE McqLines(lines, i + 1, McqLine(st, lines[i]))

\* a segment with fewer lines than this is skipped before any field parsing
MinMcqLines == 5

\* the condition with three options accepted
McqCompleteThreeOptions(question_text, options, correct_answer) ==
    /\ question_text # <<>>
    /\ Cardinality(DOMAIN options) >= 3
    /\ Truthy(correct_answer)

\* the condition under which a block is appended to the result
McqComplete(question_text, options, correct_answer) ==
    /\ question_text # <<>>
    /\ Cardinality(DOMAIN options) = 4
    /\ Truthy(correct_answer)

\* one iteration of the loop over questions[1:]: the records it appends
McqOfSegment(q) ==
    LET lines == Split(Strip(q), "\n")
    IN IF Len(lines) < MinMcqLines THEN Returned(<<>>)
       ELSE LET question_text == Strip(lines[1])
                st == McqLines(lines, 2,
                        [options |-> EmptyDict, correct_answer |-> None,
                         raised |-> FALSE])
            IN IF st.raised THEN Raised
               ELSE IF McqComplete(question_text, st.options, st.correct_answer)
                    THEN Returned(<< [question |-> question_text,
                                      options |-> st.options,
                                      correct_answer |-> st.correct_answer[1]] >>)
                    ELSE Returned(<<>>)

\* the loop over questions[1:] ended, not continued, at a segment of fewer
\* than five lines
RECURSIVE McqSegmentsUntilShort(_, _, _)
McqSegmentsUntilShort(segs, i, acc) ==
    IF i > Len(segs) THEN Returned(acc)
    ELSE IF Len(Split(Strip(segs[i]), "\n")) < MinMcqLines THEN Returned(acc)
    ELSE LET r == McqOfSegment(segs[i])
         IN IF r.raised THEN Raised
            ELSE McqSegmentsUntilShort(segs, i + 1, acc \o r.value)

RECURSIVE McqSegments(_, _, _)
McqSegments(segs, i, acc) ==
    IF i > Len(segs) THEN Returned(acc)
    ELSE LET r == McqOfSegment(segs[i])
         IN IF r.raised THEN Raised
            ELSE McqSegments(segs, i + 1, acc \o r.value)

\* parse_mcqs looping over questions instead of questions[1:]
parse_mcqs_all_pieces(text) == McqSegments(ReSplit(text), 1, <<>>)

\* parse_mcqs(text): questions[1:] skips the text before the first marker
parse_mcqs(text) == McqSegments(ReSplit(text), 2, <<>>)

(***************************************************************************)
(* parse_questions                                                        *)
(***************************************************************************)

AnswerPrefix == <<"a", "n", "s", "w", "e", "r", ":">>

\* line.split(':', 1)[1].strip()
AfterFirstColon(line) ==
    LET parts == SplitOnce(line, ":")
    IN IF Len(parts) < 2 THEN None ELSE Some(Strip(parts[2]))

\* the loop over lines[1:] without its break: the last answer line is taken
RECURSIVE FindLastAnswer(_, _)
FindLastAnswer(lines, i) ==
    IF i > Len(lines) THEN [raised |-> FALSE, answer_text |-> None]
    ELSE LET later == FindLastAnswer(lines, i + 1)
         IN IF later.raised \/ later.answer_text # None THEN later
            ELSE IF StartsWith(Lower(Strip(lines[i])), AnswerPrefix)
                 THEN LET a == AfterFirstColon(lines[i])
                      IN IF a = None
                         THEN [raised |-> TRUE, answer_text |-> None]
                         ELSE [raised |-> FALSE, answer_text |-> a]
                 ELSE later

\* the loop over lines[1:], which stops at the first answer line
RECURSIVE FindAnswer(_, _)
FindAnswer(lines, i) ==
    IF i > Len(lines) THEN [raised |-> FALSE, answer_text |-> None]
    ELSE IF StartsWith(Lower(Strip(lines[i])), AnswerPrefix)
         THEN LET a == AfterFirstColon(lines[i])
              IN IF a = None
                 THEN [raised |-> TRUE, answer_text |-> None]
                 ELSE [raised |-> FALSE, answer_text |-> a]
         ELSE FindAnswer(lines, i + 1)

MinQuestionLines == 2

QuestionOfSegment(q) ==
    LET lines == Split(Strip(q), "\n")
    IN IF Len(lines) < MinQuestionLines THEN Returned(<<>>)
       ELSE LET question_text == Strip(lines[1])
                f == FindAnswer(lines, 2)
            IN IF f.raised THEN Raised
               ELSE IF question_text # <<>> /\ Truthy(f.answer_text)
                    THEN Returned(<< [question |-> question_text,
                                      answer |-> f.answer_text[1]] >>)
                    ELSE Returned(<<>>)

RECURSIVE QuestionSegments(_, _, _)
QuestionSegments(segs, i, acc) ==
    IF i > Len(segs) THEN Returned(acc)
    ELSE LET r == QuestionOfSegment(segs[i])
         IN IF r.raised THEN Raised
            ELSE QuestionSegments(segs, i + 1, acc \o r.value)

parse_questions(text) == QuestionSegments(ReSplit(text), 2, <<>>)

(***************************************************************************)
(* parse_fill_in_the_blanks                                               *)
(***************************************************************************)

BlankAnswerPrefix ==
    <<"b", "l", "a", "n", "k", " ", "a", "n", "s", "w", "e", "r", ":">>

ContextPrefix == <<"c", "o", "n", "t", "e", "x", "t", ":">>

\* the body of the loop over lines
BlankLine(st, rawline) ==
    LET line_stripped == Strip(rawline)
    IN IF line_stripped = <<>> THEN st
       ELSE IF st.question_text = None
            THEN [st EXCEPT !.question_text = Some(line_stripped)]
            ELSE IF StartsWith(Lower(line_stripped), BlankAnswerPrefix)
                 THEN LET a == AfterFirstColon(line_stripped)
                      IN IF a = None THEN [st EXCEPT !.raised = TRUE]
                         ELSE [st EXCEPT !.blank_answer = a]
                 ELSE IF StartsWith(Lower(line_stripped), ContextPrefix)
                      THEN LET c == AfterFirstColon(line_stripped)
                           IN IF c = None THEN [st EXCEPT !.raised = TRUE]
                              ELSE [st EXCEPT !.context = c]
                      ELSE st

RECURSIVE BlankLines(_, _, _)
BlankLines(lines, i, st) ==
    IF i > Len(lines) \/ st.raised THEN st
    ELSE BlankLines(lines, i + 1, BlankLine(st, lines[i]))

MinBlankLines == 2

\* the body of the loop over q_splits[1:] with context among the required fields
BlankOfSegmentContextRequired(q) ==
    LET lines == Split(Strip(q), "\n")
    IN IF Len(lines) < MinBlankLines THEN Returned(<<>>)
       ELSE LET st == BlankLines(lines, 1,
                        [question_text |-> None, blank_answer |-> None,
                         context |-> None, raised |-> FALSE])
            IN IF st.raised THEN Raised
               ELSE IF /\ Truthy(st.question_text) /\ Truthy(st.blank_answer)
                       /\ Truthy(st.context)
                    THEN Returned(<< [question |-> st.question_text[1],
                                      blank_answer |-> st.blank_answer[1],
                                      context |-> st.context] >>)
                    ELSE Returned(<<>>)

BlankOfSegment(q) ==
    LET lines == Split(Strip(q), "\n")
    IN IF Len(lines) < MinBlankLines THEN Returned(<<>>)
       ELSE LET st == BlankLines(lines, 1,
                        [question_text |-> None, blank_answer |-> None,
                         context |-> None, raised |-> FALSE])
            IN IF st.raised THEN Raised
               ELSE IF Truthy(st.question_text) /\ Truthy(st.blank_answer)
                    THEN Returned(<< [question |-> st.question_text[1],
                                      blank_answer |-> st.blank_answer[1],
                                      context |-> st.context] >>)
                    ELSE Returned(<<>>)

RECURSIVE BlankSegments(_, _, _)
BlankSegments(segs, i, acc) ==
    IF i > Len(segs) THEN Returned(acc)
    ELSE LET r == BlankOfSegment(segs[i])
         IN IF r.raised THEN Raised
            ELSE BlankSegments(segs, i + 1, acc \o r.value)

parse_fill_in_the_blanks(text) == BlankSegments(ReSplit(text), 2, <<>>)

(***************************************************************************)
(* Exceptions                                                             *)
(***************************************************************************)

\* the text of a message: a fixed part, then the pieces formatted into it
Detail(text, about) == [text |-> text, about |-> about]

NoException == [type |-> "none", status_code |-> 0, detail |-> Detail("", <<>>)]

\* HTTPException(status_code=..., detail=...)
HTTPException(status_code, detail) ==
    [type |-> "HTTPException", status_code |-> status_code, detail |-> detail]

\* any other exception, with its message
OtherException(type, message) ==
    [type |-> type, status_code |-> 0, detail |-> Detail(message, <<>>)]

StatusText(status_code) == IF status_code = 400 THEN "400: " ELSE "500: "

\* str(e), as the pieces of the message
StrOf(e) ==
    IF e.type = "HTTPException"
    THEN <<StatusText(e.status_code), e.detail.text>> \o e.detail.about
    ELSE <<e.detail.text>> \o e.detail.about

(***************************************************************************)
(* Configuration                                                          *)
(***************************************************************************)

DotDocx == <<".", "d", "o", "c", "x">>
DotPdf == <<".", "p", "d", "f">>

ALLOWED_FILE_TYPES == <<DotDocx, DotPdf>>
MIN_QUESTIONS == 1
MAX_QUESTIONS == 10
DEFAULT_QUESTIONS == 5
MAX_DOCUMENT_LENGTH == 3000
MIN_DOCUMENT_LENGTH == 10

(***************************************************************************)
(* Validators                                                             *)
(***************************************************************************)

\* x in a list
InList(x, list) == \E i \in 1..Len(list) : list[i] = x

\* the extension of a file name, a name without a dot having none
FileExtAfterDot(filename) ==
    LET parts == Split(filename, ".")
    IN IF Len(parts) = 1 THEN <<".">> ELSE <<".">> \o Lower(parts[Len(parts)])

\* "." + filename.split('.')[-1].lower()
FileExt(filename) ==
    LET parts == Split(filename, ".")
    IN <<".">> \o Lower(parts[Len(parts)])

\* validate_file with the extension compared as written, not lower-cased
validate_file_case_sensitive(filename, allowed_types) ==
    LET parts == Split(filename, ".")
        file_ext == <<".">> \o parts[Len(parts)]
    IN IF ~InList(file_ext, allowed_types)
       THEN HTTPException(400, Detail("File must be one of {allowed_types}. Got: {file_ext}", file_ext))
       ELSE NoException

\* validate_file(filename, allowed_types): the exception it raises, if any
validate_file(filename, allowed_types) ==
    LET file_ext == FileExt(filename)
    IN IF ~InList(file_ext, allowed_types)
       THEN HTTPException(400, Detail("File must be one of {allowed_types}. Got: {file_ext}", file_ext))
       ELSE NoException

\* validate_num_questions with both limits themselves rejected
validate_num_questions_exclusive(num_questions, min_val, max_val) ==
    IF num_questions <= min_val \/ num_questions >= max_val
    THEN HTTPException(400, Detail("num_questions must be between {min_val} and {max_val}", <<>>))
    ELSE NoException

\* validate_num_questions(num_questions, min_val, max_val)
validate_num_questions(num_questions, min_val, max_val) ==
    IF num_questions < min_val \/ num_questions > max_val
    THEN HTTPException(400, Detail("num_questions must be between {min_val} and {max_val}", <<>>))
    ELSE NoException

\* validate_document_length with the check left out
validate_document_length_skipped(text, min_length) == NoException

\* validate_document_length(text, min_length)
validate_document_length(text, min_length) ==
    IF Len(text) < min_length
    THEN HTTPException(400, Detail("Document too short. Minimum {min_length} characters required.", <<>>))
    ELSE NoException

(***************************************************************************)
(* Text extraction                                                        *)
(***************************************************************************)

\* an uploaded file as the document libraries see it: unreadable, or a list of
\* the texts of its paragraphs (Word) or pages (PDF)
Upload(corrupt, parts) == [corrupt |-> corrupt, parts |-> parts]

\* a call's outcome: the value it returns, or the exception it raises
Return(value) == [exc |-> NoException, value |-> value]
Raise(e) == [exc |-> e, value |-> <<>>]

\* [p for p in parts if p.strip()]
RECURSIVE NonBlank(_)
NonBlank(parts) ==
    IF parts = <<>> THEN <<>>
    ELSE (IF Strip(Head(parts)) # <<>> THEN <<Head(parts)>> ELSE <<>>)
         \o NonBlank(Tail(parts))

\* "\n\n".join(parts)
RECURSIVE JoinParagraphs(_)
JoinParagraphs(parts) ==
    IF parts = <<>> THEN <<>>
    ELSE IF Len(parts) = 1 THEN Head(parts)
    ELSE Head(parts) \o <<"\n", "\n">> \o JoinParagraphs(Tail(parts))

\* extract_text_from_docx: every exception of the body, its own HTTPException
\* included, is caught and raised again as a 400
extract_text_from_docx(content) ==
    LET document_text == JoinParagraphs(NonBlank(content.parts))
        inner == IF content.corrupt
                 THEN Raise(OtherException("Exception", "file is not a Word document"))
                 ELSE IF document_text = <<>>
                      THEN Raise(HTTPException(400, Detail("Document contains no text", <<>>)))
                      ELSE Return(document_text)
    IN IF inner.exc # NoException
       THEN Raise(HTTPException(400,
                Detail("Failed to read DOCX document: {str(e)}", StrOf(inner.exc))))
       ELSE inner

\* extract_text_from_pdf: an HTTPException of the body is raised as it is, any
\* other exception as a 400
extract_text_from_pdf(content) ==
    LET document_text == JoinParagraphs(NonBlank(content.parts))
        inner == IF content.corrupt
                 THEN Raise(OtherException("Exception", "file is not a PDF document"))
                 ELSE IF Len(content.parts) = 0
                      THEN Raise(HTTPException(400, Detail("PDF document is empty", <<>>)))
                      ELSE IF document_text = <<>>
                           THEN Raise(HTTPException(400,
                                    Detail("No extractable text found in PDF", <<>>)))
                           ELSE Return(document_text)
    IN IF inner.exc # NoException /\ inner.exc.type # "HTTPException"
       THEN Raise(HTTPException(400,
                Detail("Failed to read PDF document: {str(e)}", StrOf(inner.exc))))
       ELSE inner

\* extract_text_from_file(filename, content)
extract_text_from_file(filename, content) ==
    LET file_ext == FileExt(filename)
    IN IF file_ext = DotDocx THEN extract_text_from_docx(content)
       ELSE IF file_ext = DotPdf THEN extract_text_from_pdf(content)
       ELSE Raise(HTTPException(400,
                Detail("Unsupported file type: {file_ext}. Supported types: .docx, .pdf", file_ext)))

\* DocumentProcessor.extract_text(filename, content)
extract_text(filename, content) ==
    LET text == extract_text_from_file(filename, content)
    IN IF text.exc # NoException THEN text
       ELSE LET v == validate_document_length(text.value, MIN_DOCUMENT_LENGTH)
            IN IF v # NoException THEN Raise(v) ELSE text

\* the default of get_document_preview's preview_length
DEFAULT_PREVIEW_LENGTH == 1000

Ellipsis == <<".", ".", ".">>

\* truncate_for_llm marking the cut with "...", as truncate_text does
truncate_for_llm_with_ellipsis(text, max_length) ==
    LET n == IF max_length = None THEN MAX_DOCUMENT_LENGTH ELSE max_length[1]
    IN IF Len(text) <= n THEN text ELSE SliceTo(text, n) \o Ellipsis

\* truncate_for_llm keeping the end of the text: text[-max_length:]
truncate_for_llm_tail(text, max_length) ==
    LET n == IF max_length = None THEN MAX_DOCUMENT_LENGTH ELSE max_length[1]
    IN IF Len(text) <= n THEN text ELSE SubSeq(text, Len(text) - n + 1, Len(text))

\* DocumentProcessor.truncate_for_llm(text, max_length): max_length is None or
\* a length
truncate_for_llm(text, max_length) ==
    SliceTo(text, IF max_length = None THEN MAX_DOCUMENT_LENGTH ELSE max_length[1])

\* DocumentProcessor.get_document_preview(text, preview_length): preview_length
\* is None when the caller leaves it out
get_document_preview(text, preview_length) ==
    LET n == IF preview_length = None THEN DEFAULT_PREVIEW_LENGTH ELSE preview_length[1]
    IN IF Len(text) > n THEN SliceTo(text, n) \o Ellipsis ELSE text

\* truncate_text(text, max_length)
truncate_text(text, max_length) ==
    IF Len(text) <= max_length THEN text ELSE SliceTo(text, max_length) \o Ellipsis

(***************************************************************************)
(* Completion texts: what the model may answer to the prompt templates    *)
(***************************************************************************)

\* the most blocks a completion text is made of
MaxBlocks == 2

DigitChars == <<"0", "1", "2", "3", "4", "5", "6", "7", "8", "9">>

\* a block number the way the completion writes it
RECURSIVE Decimal(_)
Decimal(n) ==
    IF n < 10 THEN <<DigitChars[n + 1]>>
    ELSE Decimal(n \div 10) \o <<DigitChars[(n % 10) + 1]>>

\* blocks are numbered 9, 10, 11, ... so that markers of one and two digits occur
BlockNumber(i) == i + 8

Marker(n) == QuestionWord \o Decimal(n) \o <<":">>

\* the fields of a block as the completion states them.  question: the question
\* line without its number ("" when the block has none); options: the option
\* lines, letter and text, in the order written; answer: the text of the
\* `Correct Answer:` line (None when the block has no such line); extra: further
\* lines; spaced: lines indented and ended by " \r", the question on its own line
Block(question, options, answer, extra, spaced) ==
    [question |-> question, options |-> options, answer |-> answer,
     extra |-> extra, spaced |-> spaced]

FourOptions == << <<"A", <<"a">> >>, <<"B", <<"b">> >>,
                  <<"C", <<"c">> >>, <<"D", <<"d", " ", "e">> >> >>

ThreeOptions == << <<"A", <<"a">> >>, <<"B", <<"b">> >>, <<"D", <<"d">> >> >>

AnswerWithColons ==
    <<"A", ")", " ", "e", "x", "t", "r", "a", ":", " ", "i", "n", "f", "o">>

AnswerLineQA == <<"A", "n", "s", "w", "e", "r", ":", " ", "x", ":", " ", "y">>

AnswerLineUpper == <<"A", "N", "S", "W", "E", "R", ":", "z">>

BlankAnswerLine ==
    <<"B", "l", "a", "n", "k", " ", "A", "n", "s", "w", "e", "r", ":", " ", "w">>

ContextLine == <<"C", "o", "n", "t", "e", "x", "t", ":", " ", "c", ":", "d">>

AnswerLineEmpty == <<"A", "n", "s", "w", "e", "r", ":">>

BlankAnswerLineUpper ==
    <<"B", "L", "A", "N", "K", " ", "A", "N", "S", "W", "E", "R", ":", "u", ":", " ", "v">>

BlankAnswerLineEmpty ==
    <<"B", "l", "a", "n", "k", " ", "A", "n", "s", "w", "e", "r", ":">>

ContextLineLower == <<"c", "o", "n", "t", "e", "x", "t", ":", " ", " ", "k">>

CorrectAnswerNoColon ==
    <<"C", "o", "r", "r", "e", "c", "t", " ", "A", "n", "s", "w", "e", "r", " ", "B">>

GoodBlock == Block(<<"q">>, FourOptions, Some(<<"B">>), <<>>, FALSE)
GoodSpacedBlock == Block(<<"w", " ", "q">>, FourOptions, Some(<<"C">>), <<>>, TRUE)
GoodColonBlock == Block(<<"q">>, FourOptions, Some(AnswerWithColons), <<>>, FALSE)
ThreeOptionBlock == Block(<<"q">>, ThreeOptions, Some(<<"A">>), <<>>, FALSE)
NoAnswerBlock == Block(<<"q">>, FourOptions, None, <<>>, FALSE)
EmptyAnswerBlock == Block(<<"q">>, FourOptions, Some(<<>>), <<>>, FALSE)
NoQuestionBlock == Block(<<>>, FourOptions, Some(<<"D">>), <<>>, TRUE)
TwoLineBlock == Block(<<"q">>, <<FourOptions[1]>>, None, <<>>, FALSE)
EmptyBlock == Block(<<>>, <<>>, None, <<>>, FALSE)
NoColonBlock == Block(<<"q">>, FourOptions, None, <<CorrectAnswerNoColon>>, FALSE)
QABlock == Block(<<"q">>, <<>>, None, <<AnswerLineQA, AnswerLineUpper>>, FALSE)
QAUpperBlock == Block(<<"q">>, <<>>, None, <<AnswerLineUpper>>, TRUE)
FillBlock == Block(<<"_">>, <<>>, None, <<BlankAnswerLine, ContextLine>>, FALSE)
FillNoContextBlock == Block(<<"_">>, <<>>, None, <<BlankAnswerLine>>, FALSE)
FillNoAnswerBlock == Block(<<"_">>, <<>>, None, <<ContextLine>>, FALSE)

LaterOption == <<"l", "a", "t", "e", "r">>
CorrectAnswerLineC == CorrectAnswerPrefix \o <<" ", "C">>

RepeatedOptionBlock ==
    Block(<<"q">>, FourOptions \o << <<"A", LaterOption>> >>, Some(<<"B">>), <<>>, FALSE)
RepeatedAnswerBlock ==
    Block(<<"q">>, FourOptions, Some(<<"B">>), <<CorrectAnswerLineC>>, TRUE)
LateEmptyAnswerBlock ==
    Block(<<"q">>, FourOptions, Some(<<"B">>), <<CorrectAnswerPrefix>>, FALSE)
QAEmptyFirstBlock == Block(<<"q">>, <<>>, None, <<AnswerLineEmpty, AnswerLineUpper>>, FALSE)
QAHeadlessBlock == Block(<<>>, <<>>, None, <<AnswerLineQA, AnswerLineUpper>>, FALSE)
FillUpperBlock ==
    Block(<<"_">>, <<>>, None, <<ContextLineLower, BlankAnswerLineUpper>>, TRUE)
FillEmptyAnswerBlock ==
    Block(<<"_">>, <<>>, None, <<BlankAnswerLineEmpty, ContextLine>>, FALSE)

BlockLibrary ==
    {GoodBlock, GoodSpacedBlock, GoodColonBlock, ThreeOptionBlock, NoAnswerBlock,
     EmptyAnswerBlock, NoQuestionBlock, TwoLineBlock, EmptyBlock, NoColonBlock,
     QABlock, QAUpperBlock, FillBlock, FillNoContextBlock, FillNoAnswerBlock}

\* the question line of the block numbered n
QuestionLine(b, n) ==
    IF b.question = <<>> THEN <<>> ELSE b.question \o Decimal(n) \o <<"?">>

\* the lines of a block after its marker
BlockLines(b, n) ==
    (IF b.question = <<>> THEN <<>> ELSE <<QuestionLine(b, n)>>)
    \o [i \in 1..Len(b.options) |->
            <<b.options[i][1], ")", " ">> \o b.options[i][2]]
    \o (IF b.answer = None THEN <<>>
        ELSE << CorrectAnswerPrefix
                \o (IF b.answer[1] = <<>> THEN <<>> ELSE <<" ">> \o b.answer[1]) >>)
    \o b.extra

RECURSIVE JoinLines(_, _, _)
JoinLines(lines, before, after) ==
    IF lines = <<>> THEN <<>>
    ELSE before \o Head(lines) \o after \o JoinLines(Tail(lines), before, after)

\* the text of the block numbered n, a blank line after it
RenderBlock(b, n) ==
    IF b.spaced
    THEN Marker(n) \o <<" ", "\r", "\n">>
         \o JoinLines(BlockLines(b, n), <<" ", "\t">>, <<" ", "\r", "\n">>)
         \o <<"\n">>
    ELSE Marker(n) \o <<" ">>
         \o JoinLines(BlockLines(b, n), <<>>, <<"\n">>) \o <<"\n">>

RECURSIVE RenderBlocks(_, _)
RenderBlocks(bs, i) ==
    IF i > Len(bs) THEN <<>>
    ELSE RenderBlock(bs[i], BlockNumber(i)) \o RenderBlocks(bs, i + 1)

\* commentary before the first block: none, or a sentence with a near-marker
NearMarker == <<"Q", "u", "e", "s", "t", "i", "o", "n", " ", ":", " ", "1", "\n">>

\* commentary before the first block: field lines of every kind after a
\* marker written in lower case
UnmarkedBlock ==
    <<"q", "u", "e", "s", "t", "i", "o", "n", " ", "1", ":", " ">>
    \o JoinLines(BlockLines(GoodBlock, 1) \o <<AnswerLineQA, BlankAnswerLine>>,
                 <<>>, <<"\n">>)

Preambles == {<<>>, NearMarker, UnmarkedBlock}

Render(preamble, bs) == preamble \o RenderBlocks(bs, 1)

\* blocks whose field lines are empty, repeated, in capitals or out of place
VariantLibrary ==
    {RepeatedOptionBlock, RepeatedAnswerBlock, LateEmptyAnswerBlock,
     QAEmptyFirstBlock, QAHeadlessBlock, FillUpperBlock, FillEmptyAnswerBlock}

\* the variants and the blocks they are mixed with
ScenarioLibrary ==
    VariantLibrary \cup {GoodBlock, TwoLineBlock, QABlock, FillNoContextBlock}

\* two well-formed blocks and one of two lines, for the texts of one block more
ShortAndWellFormed == {GoodBlock, GoodSpacedBlock, TwoLineBlock}

\* the texts of up to MaxBlocks blocks, and of one more
BlockSeqs ==
    UNION {[1..n -> BlockLibrary] : n \in 0..MaxBlocks}
    \cup UNION {[1..n -> ScenarioLibrary] : n \in 1..MaxBlocks}
    \cup [1..(MaxBlocks + 1) -> ShortAndWellFormed]

(***************************************************************************)
(* The generation endpoints                                               *)
(***************************************************************************)

\* the except clauses of a handler: an HTTPException is raised again as it is,
\* any other exception as a 500 whose detail gives no message
HandledWithoutMessage(e) ==
    IF e.type = "HTTPException" THEN e
    ELSE HTTPException(500, Detail("Error generating questions", <<>>))

\* the except clauses of a handler: an HTTPException is raised again as it is,
\* any other exception as a 500 whose detail carries str(e)
Handled(e) ==
    IF e.type = "HTTPException" THEN e
    ELSE HTTPException(500, Detail("Error generating questions: {str(e)}", StrOf(e)))

\* the response a raised HTTPException(status_code, detail) becomes
ErrorResponseOf(e) ==
    [status_code |-> e.status_code, body |-> [detail |-> e.detail]]

\* a handler that answers an empty list of questions with an error
JSONResponseOrError(filename, questions, result) ==
    IF questions = <<>>
    THEN ErrorResponseOf(HTTPException(500, Detail("No questions generated", <<>>)))
    ELSE [status_code |-> 200,
          body |-> [status |-> "success", filename |-> filename,
                    num_questions_generated |-> Len(questions),
                    questions |-> questions, raw_response |-> result]]

\* the JSONResponse a handler returns
JSONResponse(filename, questions, result) ==
    [status_code |-> 200,
     body |-> [status |-> "success", filename |-> filename,
               num_questions_generated |-> Len(questions),
               questions |-> questions, raw_response |-> result]]

\* where a handler goes on after a stage, with the exception swallowed
AfterStageSwallowed(e, next) == next

\* where a handler goes on after a stage, a failed completion call made again
AfterStageRetried(e, next) ==
    IF e = NoException THEN next
    ELSE IF next = "parse" THEN "generate" ELSE "done"

\* where a handler goes on after a stage: an exception leaves the try block
AfterStage(e, next) == IF e = NoException THEN next ELSE "done"

\* one LLMService for all requests, kept at module level like doc_processor
SharedService(services, r, service) == [q \in DOMAIN services |-> Some(service)]

\* llm_service = LLMService(groq_api_key): a local variable of the handler
OwnService(services, r, service) == [services EXCEPT ![r] = Some(service)]

\* the prompt template and the parser of an endpoint
TemplateOf(endpoint) ==
    IF endpoint = "generate-mcqs" THEN "MCQ_PROMPT_TEMPLATE"
    ELSE "QUESTION_PROMPT_TEMPLATE"

ParserOf(endpoint, result) ==
    IF endpoint = "generate-mcqs" THEN parse_mcqs(result) ELSE parse_questions(result)

(***************************************************************************)
(* Inputs                                                                 *)
(***************************************************************************)

Requests == {1, 2}

Endpoints == {"generate-mcqs", "generate-questions"}

ApiKeys == {"gsk_1", "gsk_2"}

\* a text of n characters, the digits in turn
Chars(n) == [i \in 1..n |-> DigitChars[(i % 10) + 1]]

\* the parts of a file name between its dots, each with its lower-case form
Component(text, lower) == [text |-> text, lower |-> lower]

Components ==
    {Component(<<"r", "e", "p", "o", "r", "t">>, <<"r", "e", "p", "o", "r", "t">>),
     Component(<<"d", "o", "c", "x">>, <<"d", "o", "c", "x">>),
     Component(<<"D", "o", "c", "X">>, <<"d", "o", "c", "x">>),
     Component(<<"p", "d", "f">>, <<"p", "d", "f">>),
     Component(<<"P", "D", "F">>, <<"p", "d", "f">>),
     Component(<<"t", "x", "t">>, <<"t", "x", "t">>),
     Component(<<>>, <<>>)}

\* the most parts a file name has
MaxNameParts == 2

NameParts == UNION {[1..n -> Components] : n \in 1..MaxNameParts}

\* the file name made of the parts
RECURSIVE NameOf(_)
NameOf(parts) ==
    IF Len(parts) = 1 THEN parts[1].text
    ELSE parts[1].text \o <<".">> \o NameOf(Tail(parts))

AllowedLists == {<<DotDocx>>, ALLOWED_FILE_TYPES}

\* the file names of the requests; None: the upload carries no file name
ReportDocx == <<"r", "e", "p", "o", "r", "t", ".", "d", "o", "c", "x">>
ReportPDF == <<"r", "e", "p", "o", "r", "t", ".", "P", "D", "F">>
ReportTxt == <<"r", "e", "p", "o", "r", "t", ".", "t", "x", "t">>

RequestFilenames == {None, Some(ReportDocx), Some(ReportPDF), Some(ReportTxt)}

\* the uploaded contents: unreadable, without parts, blank, one character
\* short of the minimum, exactly the minimum, one character over the maximum
CorruptUpload == Upload(TRUE, <<>>)
NoPartsUpload == Upload(FALSE, <<>>)
BlankUpload == Upload(FALSE, <<<<" ", "\n">>>>)
ShortUpload == Upload(FALSE, <<Chars(MIN_DOCUMENT_LENGTH - 1)>>)
MinimalUpload == Upload(FALSE, <<Chars(4), <<" ">>, Chars(MIN_DOCUMENT_LENGTH - 6)>>)
LongUpload == Upload(FALSE, <<Chars(MAX_DOCUMENT_LENGTH + 1)>>)

RequestContents ==
    {CorruptUpload, NoPartsUpload, BlankUpload, ShortUpload, MinimalUpload, LongUpload}

\* the uploads handed to extract_text_from_file: the two extractors differ on
\* the first two and agree on the third
ExtractContents == {CorruptUpload, NoPartsUpload, MinimalUpload}

RequestNumQuestions ==
    {MIN_QUESTIONS - 1, MIN_QUESTIONS, DEFAULT_QUESTIONS, MAX_QUESTIONS,
     MAX_QUESTIONS + 1}

\* the completions the provider may return to a request
RequestCompletions ==
    {<<>>} \cup {RenderBlock(b, 1) : b \in BlockLibrary}

\* the numbers around the configured limits
NumQuestionsInputs == (MIN_QUESTIONS - 2)..(MAX_QUESTIONS + 2)

\* the configured limits, a one-number range, a narrow range and an empty one
NumQuestionsLimits ==
    {<<MIN_QUESTIONS, MAX_QUESTIONS>>, <<DEFAULT_QUESTIONS, DEFAULT_QUESTIONS>>,
     <<MIN_QUESTIONS + 1, DEFAULT_QUESTIONS>>, <<DEFAULT_QUESTIONS, MIN_QUESTIONS>>}

NumberArgs ==
    {[num_questions |-> n, min_val |-> l[1], max_val |-> l[2]] :
        n \in NumQuestionsInputs, l \in NumQuestionsLimits}

\* the lengths of the texts handed to a truncation: around the lengths asked for
TextLengths ==
    {0, 1, 2, DEFAULT_PREVIEW_LENGTH - 1, DEFAULT_PREVIEW_LENGTH,
     DEFAULT_PREVIEW_LENGTH + 1, MAX_DOCUMENT_LENGTH - 1, MAX_DOCUMENT_LENGTH,
     MAX_DOCUMENT_LENGTH + 1, MAX_DOCUMENT_LENGTH + 2000}

\* the lengths asked for: the default (None), or a length given
MaxLengths ==
    {None} \cup {Some(n) : n \in {0, 1, DEFAULT_PREVIEW_LENGTH, MAX_DOCUMENT_LENGTH}}

(***************************************************************************)
(* State                                                                  *)
(***************************************************************************)

VARIABLES
    blocks,       \* the blocks the completion text was made of
    completion,   \* the completion text handed to a parser
    parser,       \* the parser called on it ("none" before the call)
    parsed,       \* what the call returned, or that it raised
    name_parts,   \* the parts of the file name handed to a validator
    allowed_types,\* the allow-list handed to validate_file
    num_args,     \* num_questions, min_val and max_val handed to validate_num_questions
    file_content, \* the upload handed to extract_text_from_file
    extraction,   \* what extract_text_from_file returned or raised
    validator,    \* the validator called ("none" before the call)
    validation,   \* the exception the validator raised, if any
    text_args,    \* the text and the length handed to a truncation
    truncator,    \* the truncation called ("none" before the call)
    truncated,    \* the text the truncation returned
    pending,      \* the requests still to arrive
    pc,           \* where the handler of each request is
    request,      \* endpoint, file, groq_api_key and num_questions of each request
    content,      \* the bytes read from the upload
    document_text,\* the handler's document_text
    llm_service,  \* the handler's LLMService
    invocations,  \* the completion calls made for each request
    result,       \* the completion text of each request
    questions,    \* the parsed records of each request
    response,     \* the response of each request
    trace         \* the stages each handler ran, in order, with their exceptions

parseVars == <<blocks, completion, parser, parsed>>
validateVars == <<name_parts, allowed_types, num_args, file_content, extraction,
                  validator, validation>>
handlerVars == <<pending, pc, request, content, document_text, llm_service,
                 invocations, result, questions, response, trace>>
truncateVars == <<text_args, truncator, truncated>>
vars == <<parseVars, validateVars, truncateVars, handlerVars>>

NoRequest ==
    [endpoint |-> "generate-mcqs", filename |-> None, content |-> CorruptUpload,
     groq_api_key |-> "", num_questions |-> DEFAULT_QUESTIONS]

\* no text handed to a parser
ParseIdle ==
    /\ blocks = <<>>
    /\ completion = <<>>
    /\ parser = "none"
    /\ parsed = Returned(<<>>)

\* nothing handed to a validator
ValidateIdle ==
    /\ name_parts = <<>>
    /\ allowed_types = <<>>
    /\ num_args = None
    /\ file_content = CorruptUpload
    /\ extraction = Return(<<>>)
    /\ validator = "none"
    /\ validation = NoException

\* no text handed to a truncation
TruncateIdle ==
    /\ text_args = [text |-> <<>>, max_length |-> None]
    /\ truncator = "none"
    /\ truncated = <<>>

\* the requests in `arriving` are still to come, no handler has started
HandlersIdle(arriving) ==
    /\ pending = arriving
    /\ pc = [r \in Requests |-> "idle"]
    /\ request = [r \in Requests |-> NoRequest]
    /\ content = [r \in Requests |-> None]
    /\ document_text = [r \in Requests |-> <<>>]
    /\ llm_service = [r \in Requests |-> None]
    /\ invocations = [r \in Requests |-> <<>>]
    /\ result = [r \in Requests |-> <<>>]
    /\ questions = [r \in Requests |-> <<>>]
    /\ response = [r \in Requests |-> None]
    /\ trace = [r \in Requests |-> <<>>]

(***************************************************************************)
(* The parsers applied to a completion text                               *)
(***************************************************************************)

InitParse ==
    /\ blocks \in BlockSeqs
    /\ \E preamble \in Preambles : completion = Render(preamble, blocks)
    /\ parser = "none"
    /\ parsed = Returned(<<>>)
    /\ ValidateIdle
    /\ TruncateIdle
    /\ HandlersIdle({})

CallParseMcqs ==
    /\ parser = "none"
    /\ parser' = "parse_mcqs"
    /\ parsed' = parse_mcqs(completion)
    /\ UNCHANGED <<blocks, completion, validateVars, truncateVars, handlerVars>>

CallParseQuestions ==
    /\ parser = "none"
    /\ parser' = "parse_questions"
    /\ parsed' = parse_questions(completion)
    /\ UNCHANGED <<blocks, completion, validateVars, truncateVars, handlerVars>>

CallParseFillInTheBlanks ==
    /\ parser = "none"
    /\ parser' = "parse_fill_in_the_blanks"
    /\ parsed' = parse_fill_in_the_blanks(completion)
    /\ UNCHANGED <<blocks, completion, validateVars, truncateVars, handlerVars>>

NextParse == CallParseMcqs \/ CallParseQuestions \/ CallParseFillInTheBlanks

SpecParse == InitParse /\ [][NextParse]_vars

(***************************************************************************)
(* The validators applied to their inputs                                 *)
(***************************************************************************)

\* either a file name with an allow-list and an upload, or a number and its
\* limits
InitValidate ==
    /\ \/ /\ name_parts \in NameParts
          /\ allowed_types \in AllowedLists
          /\ file_content \in ExtractContents
          /\ num_args = None
       \/ /\ name_parts = <<>>
          /\ allowed_types = <<>>
          /\ file_content = CorruptUpload
          /\ num_args \in {Some(a) : a \in NumberArgs}
    /\ extraction = Return(<<>>)
    /\ validator = "none"
    /\ validation = NoException
    /\ ParseIdle
    /\ TruncateIdle
    /\ HandlersIdle({})

CallValidateFile ==
    /\ validator = "none"
    /\ name_parts # <<>>
    /\ validator' = "validate_file"
    /\ validation' = validate_file(NameOf(name_parts), allowed_types)
    /\ UNCHANGED <<name_parts, allowed_types, num_args, file_content, extraction,
                   parseVars, truncateVars, handlerVars>>

CallValidateNumQuestions ==
    /\ validator = "none"
    /\ num_args # None
    /\ validator' = "validate_num_questions"
    /\ validation' = validate_num_questions(num_args[1].num_questions,
                                            num_args[1].min_val, num_args[1].max_val)
    /\ UNCHANGED <<name_parts, allowed_types, num_args, file_content, extraction,
                   parseVars, truncateVars, handlerVars>>

\* extract_text_from_file(filename, content), once the name was validated
CallExtractTextFromFile ==
    /\ validator = "validate_file"
    /\ validator' = "extract_text_from_file"
    /\ extraction' = extract_text_from_file(NameOf(name_parts), file_content)
    /\ UNCHANGED <<name_parts, allowed_types, num_args, file_content, validation,
                   parseVars, truncateVars, handlerVars>>

NextValidate ==
    CallValidateFile \/ CallValidateNumQuestions \/ CallExtractTextFromFile

SpecValidate == InitValidate /\ [][NextValidate]_vars

(***************************************************************************)
(* The truncations applied to a text                                      *)
(***************************************************************************)

InitTruncate ==
    /\ text_args \in [text : {Chars(n) : n \in TextLengths}, max_length : MaxLengths]
    /\ truncator = "none"
    /\ truncated = <<>>
    /\ ParseIdle
    /\ ValidateIdle
    /\ HandlersIdle({})

CallTruncateForLlm ==
    /\ truncator = "none"
    /\ truncator' = "truncate_for_llm"
    /\ truncated' = truncate_for_llm(text_args.text, text_args.max_length)
    /\ UNCHANGED <<text_args, parseVars, validateVars, handlerVars>>

CallGetDocumentPreview ==
    /\ truncator = "none"
    /\ truncator' = "get_document_preview"
    /\ truncated' = get_document_preview(text_args.text, text_args.max_length)
    /\ UNCHANGED <<text_args, parseVars, validateVars, handlerVars>>

\* truncate_text has no default for max_length
CallTruncateText ==
    /\ truncator = "none"
    /\ text_args.max_length # None
    /\ truncator' = "truncate_text"
    /\ truncated' = truncate_text(text_args.text, text_args.max_length[1])
    /\ UNCHANGED <<text_args, parseVars, validateVars, handlerVars>>

NextTruncate == CallTruncateForLlm \/ CallGetDocumentPreview \/ CallTruncateText

SpecTruncate == InitTruncate /\ [][NextTruncate]_vars

(***************************************************************************)
(* The handlers generate_mcqs and generate_questions, stage by stage      *)
(***************************************************************************)

\* the stage of request r ends with exception e (NoException: it succeeded);
\* an exception is turned into the response by the except clauses
Stage(r, stage, e, next) ==
    /\ trace' = [trace EXCEPT ![r] = Append(@, [stage |-> stage, exc |-> e])]
    /\ pc' = [pc EXCEPT ![r] = AfterStage(e, next)]
    /\ response' = IF e = NoException THEN response
                   ELSE [response EXCEPT ![r] = Some(ErrorResponseOf(Handled(e)))]

\* a request arrives at one of the two endpoints
Receive(r) ==
    /\ r \in pending
    /\ pending' = pending \ {r}
    /\ \E endpoint \in Endpoints, filename \in RequestFilenames,
          upload \in RequestContents, key \in ApiKeys, n \in RequestNumQuestions :
            request' = [request EXCEPT ![r] =
                [endpoint |-> endpoint, filename |-> filename, content |-> upload,
                 groq_api_key |-> key, num_questions |-> n]]
    /\ pc' = [pc EXCEPT ![r] = "validate_file"]
    /\ UNCHANGED <<content, document_text, llm_service, invocations, result,
                   questions, response, trace, parseVars, validateVars, truncateVars>>

\* validate_file(file.filename, ALLOWED_FILE_TYPES)
ValidateFile(r) ==
    /\ pc[r] = "validate_file"
    /\ Stage(r, "validate_file",
             IF request[r].filename = None
             THEN OtherException("AttributeError",
                                 "'NoneType' object has no attribute 'split'")
             ELSE validate_file(request[r].filename[1], ALLOWED_FILE_TYPES),
             "validate_num_questions")
    /\ UNCHANGED <<pending, request, content, document_text, llm_service,
                   invocations, result, questions, parseVars, validateVars, truncateVars>>

\* validate_num_questions(num_questions, MIN_QUESTIONS, MAX_QUESTIONS)
ValidateNumQuestions(r) ==
    /\ pc[r] = "validate_num_questions"
    /\ Stage(r, "validate_num_questions",
             validate_num_questions(request[r].num_questions,
                                    MIN_QUESTIONS, MAX_QUESTIONS),
             "read")
    /\ UNCHANGED <<pending, request, content, document_text, llm_service,
                   invocations, result, questions, parseVars, validateVars, truncateVars>>

\* content = await file.read()
ReadFile(r) ==
    /\ pc[r] = "read"
    /\ content' = [content EXCEPT ![r] = Some(request[r].content)]
    /\ Stage(r, "read", NoException, "extract_text")
    /\ UNCHANGED <<pending, request, document_text, llm_service, invocations,
                   result, questions, parseVars, validateVars, truncateVars>>

\* document_text = doc_processor.extract_text(file.filename, content)
ExtractText(r) ==
    /\ pc[r] = "extract_text"
    /\ LET text == extract_text(request[r].filename[1], content[r][1])
       IN /\ document_text' = [document_text EXCEPT ![r] = text.value]
          /\ Stage(r, "extract_text", text.exc, "initialize")
    /\ UNCHANGED <<pending, request, content, llm_service, invocations, result,
                   questions, parseVars, validateVars, truncateVars>>

\* llm_service = LLMService(groq_api_key); llm_service.initialize(): the
\* provider's client is built from the key of the request, or refuses it
InitializeLLM(r) ==
    /\ pc[r] = "initialize"
    /\ \E built \in BOOLEAN :
        /\ llm_service' = OwnService(llm_service, r,
                [api_key |-> request[r].groq_api_key, llm |-> built])
        /\ Stage(r, "initialize",
                 IF built THEN NoException
                 ELSE OtherException("Exception", "client rejected the api key"),
                 "truncate")
    /\ UNCHANGED <<pending, request, content, document_text, invocations, result,
                   questions, parseVars, validateVars, truncateVars>>

\* document_text = doc_processor.truncate_for_llm(document_text, MAX_DOCUMENT_LENGTH)
Truncate(r) ==
    /\ pc[r] = "truncate"
    /\ document_text' = [document_text EXCEPT ![r] =
            truncate_for_llm(@, Some(MAX_DOCUMENT_LENGTH))]
    /\ Stage(r, "truncate", NoException, "generate")
    /\ UNCHANGED <<pending, request, content, llm_service, invocations, result,
                   questions, parseVars, validateVars, truncateVars>>

\* result = llm_service.generate_mcqs(document_text, num_questions), or
\* generate_questions: one chain.invoke, which returns a text or raises
Generate(r) ==
    /\ pc[r] = "generate"
    /\ invocations' = [invocations EXCEPT ![r] =
            Append(@, [template |-> TemplateOf(request[r].endpoint),
                       document_text |-> document_text[r],
                       num_questions |-> request[r].num_questions,
                       api_key |-> llm_service[r][1].api_key])]
    /\ \/ \E text \in RequestCompletions :
            /\ result' = [result EXCEPT ![r] = text]
            /\ Stage(r, "generate", NoException, "parse")
       \/ /\ result' = result
          /\ Stage(r, "generate",
                   OtherException("Exception", "provider error"), "parse")
    /\ UNCHANGED <<pending, request, content, document_text, llm_service,
                   questions, parseVars, validateVars, truncateVars>>

\* mcqs = parse_mcqs(result), or questions = parse_questions(result)
Parse(r) ==
    /\ pc[r] = "parse"
    /\ LET p == ParserOf(request[r].endpoint, result[r])
       IN /\ questions' = [questions EXCEPT ![r] = p.value]
          /\ Stage(r, "parse",
                   IF p.raised
                   THEN OtherException("IndexError", "list index out of range")
                   ELSE NoException,
                   "respond")
    /\ UNCHANGED <<pending, request, content, document_text, llm_service,
                   invocations, result, parseVars, validateVars, truncateVars>>

\* return JSONResponse({...})
Respond(r) ==
    /\ pc[r] = "respond"
    /\ pc' = [pc EXCEPT ![r] = "done"]
    /\ trace' = [trace EXCEPT ![r] = Append(@, [stage |-> "respond", exc |-> NoException])]
    /\ response' = [response EXCEPT ![r] =
            Some(JSONResponse(request[r].filename[1], questions[r], result[r]))]
    /\ UNCHANGED <<pending, request, content, document_text, llm_service,
                   invocations, result, questions, parseVars, validateVars, truncateVars>>

Handler(r) ==
    \/ Receive(r)
    \/ ValidateFile(r)
    \/ ValidateNumQuestions(r)
    \/ ReadFile(r)
    \/ ExtractText(r)
    \/ InitializeLLM(r)
    \/ Truncate(r)
    \/ Generate(r)
    \/ Parse(r)
    \/ Respond(r)

\* a handler from its first statement to its response, given what the
\* provider does: whether it builds a client, and the text its completion
\* call returns (None when the call raises)
RunHandler(req, built, completed) ==
    LET file_error ==
            IF req.filename = None
            THEN OtherException("AttributeError",
                                "'NoneType' object has no attribute 'split'")
            ELSE validate_file(req.filename[1], ALLOWED_FILE_TYPES)
        num_error == validate_num_questions(req.num_questions,
                                            MIN_QUESTIONS, MAX_QUESTIONS)
        text == extract_text(req.filename[1], req.content)
        p == ParserOf(req.endpoint, completed[1])
    IN IF file_error # NoException THEN ErrorResponseOf(Handled(file_error))
       ELSE IF num_error # NoException THEN ErrorResponseOf(Handled(num_error))
       ELSE IF text.exc # NoException THEN ErrorResponseOf(Handled(text.exc))
       ELSE IF ~built
            THEN ErrorResponseOf(Handled(
                    OtherException("Exception", "client rejected the api key")))
       ELSE IF completed = None
            THEN ErrorResponseOf(Handled(OtherException("Exception", "provider error")))
       ELSE IF p.raised
            THEN ErrorResponseOf(Handled(
                    OtherException("IndexError", "list index out of range")))
       ELSE JSONResponse(req.filename[1], p.value, completed[1])

\* one request
Init ==
    /\ ParseIdle
    /\ ValidateIdle
    /\ TruncateIdle
    /\ HandlersIdle({1})

Next == \E r \in Requests : Handler(r)

Spec == Init /\ [][Next]_vars

\* the file names, uploads and counts of requests handled at the same time
ConcurrentFilenames == {Some(ReportDocx), Some(ReportTxt)}
ConcurrentContents == {MinimalUpload}
ConcurrentNumQuestions == {DEFAULT_QUESTIONS}

\* a request arrives while another may be under way
ReceiveConcurrent(r) ==
    /\ r \in pending
    /\ pending' = pending \ {r}
    /\ \E endpoint \in Endpoints, filename \in ConcurrentFilenames,
          upload \in ConcurrentContents, key \in ApiKeys,
          n \in ConcurrentNumQuestions :
            request' = [request EXCEPT ![r] =
                [endpoint |-> endpoint, filename |-> filename, content |-> upload,
                 groq_api_key |-> key, num_questions |-> n]]
    /\ pc' = [pc EXCEPT ![r] = "validate_file"]
    /\ UNCHANGED <<content, document_text, llm_service, invocations, result,
                   questions, response, trace, parseVars, validateVars, truncateVars>>

HandlerConcurrent(r) ==
    \/ ReceiveConcurrent(r)
    \/ ValidateFile(r)
    \/ ValidateNumQuestions(r)
    \/ ReadFile(r)
    \/ ExtractText(r)
    \/ InitializeLLM(r)
    \/ Truncate(r)
    \/ Generate(r)
    \/ Parse(r)
    \/ Respond(r)

\* two requests, their stages interleaved in any order
InitConcurrent ==
    /\ ParseIdle
    /\ ValidateIdle
    /\ TruncateIdle
    /\ HandlersIdle(Requests)

NextConcurrent == \E r \in Requests : HandlerConcurrent(r)

SpecConcurrent == InitConcurrent /\ [][NextConcurrent]_vars

(***************************************************************************)
(* What a completion text states, read off the blocks it was made of      *)
(***************************************************************************)

LetterSet == {"A", "B", "C", "D"}

\* the letters of the option lines of a block
LettersOf(b) == {b.options[i][1] : i \in 1..Len(b.options)}

\* a well-formed MCQ block: a question line, one line for each of A) to D),
\* and a `Correct Answer:` line with a text
WellFormed(b) ==
    /\ b.question # <<>>
    /\ Len(b.options) = 4 /\ LettersOf(b) = LetterSet
    /\ b.answer # None /\ b.answer[1] # <<>>
    /\ b.extra = <<>>

\* the record a well-formed block numbered n states
StatedMcq(b, n) ==
    [question |-> QuestionLine(b, n),
     options |-> [l \in LetterSet |->
                    b.options[CHOOSE i \in 1..4 : b.options[i][1] = l][2]],
     correct_answer |-> b.answer[1]]

RECURSIVE StatedMcqs(_, _)
StatedMcqs(bs, i) ==
    IF i > Len(bs) THEN <<>>
    ELSE (IF WellFormed(bs[i]) THEN <<StatedMcq(bs[i], BlockNumber(i))>> ELSE <<>>)
         \o StatedMcqs(bs, i + 1)

\* the blocks that state every field the parser requires
CompleteFor(p) ==
    IF p = "parse_mcqs"
    THEN {b \in BlockLibrary : WellFormed(b)} \cup {RepeatedOptionBlock, RepeatedAnswerBlock}
    ELSE IF p = "parse_questions" THEN {QABlock, QAUpperBlock}
    ELSE {FillBlock, FillNoContextBlock, FillUpperBlock}

\* what the field lines of the library say after their first colon
StatedText(line) ==
    CASE line = AnswerLineQA -> <<"x", ":", " ", "y">>
      [] line = AnswerLineUpper -> <<"z">>
      [] line = AnswerLineEmpty -> <<>>
      [] line = BlankAnswerLine -> <<"w">>
      [] line = BlankAnswerLineUpper -> <<"u", ":", " ", "v">>
      [] line = BlankAnswerLineEmpty -> <<>>
      [] line = ContextLine -> <<"c", ":", "d">>
      [] line = ContextLineLower -> <<"k">>

AnswerLines == {AnswerLineQA, AnswerLineUpper, AnswerLineEmpty}
BlankAnswerLines == {BlankAnswerLine, BlankAnswerLineUpper, BlankAnswerLineEmpty}
ContextLines == {ContextLine, ContextLineLower}

\* what the first line of one kind among `lines` says, None when there is none
FirstStated(lines, kind) ==
    LET at == {k \in 1..Len(lines) : lines[k] \in kind}
    IN IF at = {} THEN None
       ELSE Some(StatedText(lines[CHOOSE k \in at : \A j \in at : k <= j]))

\* the fill-in-the-blanks record the block numbered n states, if any
StatedBlank(b, n) ==
    LET lines == BlockLines(b, n)
        blank_answer == FirstStated(Tail(lines), BlankAnswerLines)
    IN IF blank_answer = None \/ blank_answer = Some(<<>>) THEN <<>>
       ELSE << [question |-> Head(lines), blank_answer |-> blank_answer[1],
                context |-> FirstStated(Tail(lines), ContextLines)] >>

\* the question-and-answer record the block numbered n states, if any
StatedAnswer(b, n) ==
    LET lines == BlockLines(b, n)
        answer == FirstStated(Tail(lines), AnswerLines)
    IN IF answer = None \/ answer = Some(<<>>) THEN <<>>
       ELSE << [question |-> Head(lines), answer |-> answer[1]] >>

RECURSIVE StatedBlanks(_, _)
StatedBlanks(bs, i) ==
    IF i > Len(bs) THEN <<>>
    ELSE (IF BlockLines(bs[i], BlockNumber(i)) = <<>> THEN <<>>
          ELSE StatedBlank(bs[i], BlockNumber(i)))
         \o StatedBlanks(bs, i + 1)

RECURSIVE StatedAnswers(_, _)
StatedAnswers(bs, i) ==
    IF i > Len(bs) THEN <<>>
    ELSE (IF BlockLines(bs[i], BlockNumber(i)) = <<>> THEN <<>>
          ELSE StatedAnswer(bs[i], BlockNumber(i)))
         \o StatedAnswers(bs, i + 1)

\* some returned record carries the question line of block i
HasRecordOf(i) ==
    \E k \in 1..Len(parsed.value) :
        parsed.value[k].question = QuestionLine(blocks[i], BlockNumber(i))

(***************************************************************************)
(* Claims about the parsers                                               *)
(***************************************************************************)

\* C1: for a completion made of well-formed and malformed MCQ blocks in any
\* order, none with a field line written twice, parse_mcqs returns exactly
\* the records the well-formed blocks state (question, the four option texts,
\* correct answer), in the order of the text.
C1_RecordsOfWellFormedBlocks ==
    (parser = "parse_mcqs" /\ \A i \in 1..Len(blocks) : blocks[i] \in BlockLibrary) =>
        /\ ~parsed.raised
        /\ parsed.value = StatedMcqs(blocks, 1)

\* C2: the correct_answer of a record is the whole stripped text after the
\* first colon of the `Correct Answer:` line, further colons kept.
C2_AnswerKeepsLaterColons ==
    parser = "parse_mcqs" =>
        \A i \in 1..Len(blocks) :
            WellFormed(blocks[i]) =>
                \A k \in 1..Len(parsed.value) :
                    parsed.value[k].question = QuestionLine(blocks[i], BlockNumber(i))
                        => parsed.value[k].correct_answer = blocks[i].answer[1]

\* C3: every record parse_mcqs returns has a non-empty question, options with
\* exactly the keys A, B, C, D and a non-empty correct answer; a block with
\* only three of the four option lines contributes no record.
C3_RecordsAreComplete ==
    parser = "parse_mcqs" =>
        /\ \A k \in 1..Len(parsed.value) :
               /\ parsed.value[k].question # <<>>
               /\ DOMAIN parsed.value[k].options = LetterSet
               /\ parsed.value[k].correct_answer # <<>>
        /\ \A i \in 1..Len(blocks) :
               (Cardinality(LettersOf(blocks[i])) = 3 /\ blocks[i].question # <<>>)
                   => ~HasRecordOf(i)

\* C3 witness: a text with a three-option block next to a block that is kept
C3_Witness ==
    /\ parser = "parse_mcqs"
    /\ Len(parsed.value) = 1
    /\ \E i \in 1..Len(blocks) : blocks[i] = ThreeOptionBlock

\* C9: no parser raises on any text; a block that lacks a required field
\* yields no record, and complete blocks after it still yield theirs.
C9_ParsersNeverRaise ==
    parser # "none" =>
        /\ ~parsed.raised
        /\ \A i \in 1..Len(blocks) :
               (blocks[i] \notin CompleteFor(parser) /\ blocks[i].question # <<>>)
                   => ~HasRecordOf(i)
        /\ \A i, j \in 1..Len(blocks) :
               (i < j /\ blocks[i] \notin CompleteFor(parser)
                      /\ blocks[j] \in CompleteFor(parser))
                   => HasRecordOf(j)

\* C9 witness: a block without a colon after `Correct Answer`, then a complete one
C9_Witness ==
    /\ parser = "parse_mcqs"
    /\ Len(blocks) = 2
    /\ blocks[1] = NoColonBlock
    /\ blocks[2] = GoodSpacedBlock
    /\ Len(parsed.value) = 1

\* C13: parse_fill_in_the_blanks returns, in the order of the text, one record
\* for each block with a non-empty blank answer: its question is the first
\* non-empty line of the block, its blank_answer and context the text after
\* the first colon of the line starting with `Blank Answer:` and `Context:` in
\* any case; context is absent when the block has no `Context:` line; a block
\* with no `Blank Answer:` line or an empty one yields no record.
C13_FillInTheBlanksFields ==
    parser = "parse_fill_in_the_blanks" =>
        /\ ~parsed.raised
        /\ parsed.value = StatedBlanks(blocks, 1)

\* C13 witness: a block without a `Context:` line and a block written in
\* capitals, both kept, the first with context absent
C13_Witness ==
    /\ parser = "parse_fill_in_the_blanks"
    /\ blocks = <<FillNoContextBlock, FillUpperBlock>>
    /\ Len(parsed.value) = 2
    /\ parsed.value[1].context = None
    /\ parsed.value[2].context = Some(<<"k">>)

\* C14: parse_questions returns, in the order of the text, one record for each
\* segment whose first line and first `Answer:` line (in any case) are both
\* non-empty: the question is the first line, the answer the text after the
\* first colon of the first later line starting with `Answer:`, further
\* colons kept.
C14_QuestionsFirstAnswerLine ==
    parser = "parse_questions" =>
        /\ ~parsed.raised
        /\ parsed.value = StatedAnswers(blocks, 1)

\* C14 witness: a block with two `Answer:` lines, the first with a second
\* colon, and a block whose first `Answer:` line is empty
C14_Witness ==
    /\ parser = "parse_questions"
    /\ blocks = <<QABlock, QAEmptyFirstBlock>>
    /\ Len(parsed.value) = 1
    /\ parsed.value[1].answer = <<"x", ":", " ", "y">>

\* the questions of the records returned, in order
QuestionsOf(records) == [k \in 1..Len(records) |-> records[k].question]

\* the question lines of those of the blocks that are in `kept`, in order
RECURSIVE QuestionLinesOf(_, _, _)
QuestionLinesOf(bs, i, kept) ==
    IF i > Len(bs) THEN <<>>
    ELSE (IF bs[i] \in kept THEN <<QuestionLine(bs[i], BlockNumber(i))>> ELSE <<>>)
         \o QuestionLinesOf(bs, i + 1, kept)

\* C18: parse_mcqs skips a segment of fewer than 5 lines and goes on with the
\* next: in a text of well-formed blocks and blocks of fewer than 5 lines the
\* records are those of the well-formed blocks, in order; two well-formed
\* blocks and one of two lines, in any order, give exactly 2 records, the 2nd
\* with the first line of the second well-formed block as its question.
C18_ShortSegmentsSkipped ==
    (/\ parser = "parse_mcqs"
     /\ \A i \in 1..Len(blocks) :
            \/ WellFormed(blocks[i])
            \/ Len(BlockLines(blocks[i], BlockNumber(i))) < 5) =>
        /\ ~parsed.raised
        /\ QuestionsOf(parsed.value)
              = QuestionLinesOf(blocks, 1, {b \in BlockLibrary : WellFormed(b)})
        /\ \A k \in 1..Len(parsed.value) :
              /\ DOMAIN parsed.value[k].options = LetterSet
              /\ parsed.value[k].correct_answer # <<>>
        /\ \A i, j, k \in 1..Len(blocks) :
              (/\ Len(blocks) = 3 /\ {i, j, k} = {1, 2, 3} /\ i < j
               /\ WellFormed(blocks[i]) /\ WellFormed(blocks[j])
               /\ blocks[k] = TwoLineBlock) =>
                  /\ Len(parsed.value) = 2
                  /\ parsed.value[2].question = QuestionLine(blocks[j], BlockNumber(j))

\* C18 witness: a block of two lines between two well-formed blocks
C18_Witness ==
    /\ parser = "parse_mcqs"
    /\ blocks = <<GoodBlock, TwoLineBlock, GoodSpacedBlock>>
    /\ Len(parsed.value) = 2
    /\ parsed.value[2].question = QuestionLine(GoodSpacedBlock, BlockNumber(3))

\* the MCQ blocks that write a field line twice
RepeatingBlocks == {RepeatedOptionBlock, RepeatedAnswerBlock, LateEmptyAnswerBlock}

\* the text of the last option line of a block with the letter l
LastOption(b, l) ==
    LET at == {i \in 1..Len(b.options) : b.options[i][1] = l}
    IN b.options[CHOOSE i \in at : \A j \in at : j <= i][2]

\* the text of the last `Correct Answer:` line of a block
LastAnswer(b) ==
    IF b.extra = <<CorrectAnswerLineC>> THEN <<"C">>
    ELSE IF b.extra = <<CorrectAnswerPrefix>> THEN <<>>
    ELSE b.answer[1]

\* C20: within one MCQ segment the last line of a field wins: an option
\* written twice has the later text, a `Correct Answer:` line written twice
\* the later answer, and a later empty `Correct Answer:` line makes a block
\* with all its fields be dropped; parse_questions takes the first `Answer:`
\* line only, and drops the segment when that line is empty.
C20_LastFieldLineWins ==
    /\ parser = "parse_mcqs" =>
          \A i \in 1..Len(blocks) :
              blocks[i] \in RepeatingBlocks =>
                  IF LastAnswer(blocks[i]) = <<>> THEN ~HasRecordOf(i)
                  ELSE \E k \in 1..Len(parsed.value) :
                          parsed.value[k] =
                              [question |-> QuestionLine(blocks[i], BlockNumber(i)),
                               options |-> [l \in LetterSet |-> LastOption(blocks[i], l)],
                               correct_answer |-> LastAnswer(blocks[i])]
    /\ parser = "parse_questions" =>
          \A i \in 1..Len(blocks) :
              /\ blocks[i] = QABlock =>
                    \E k \in 1..Len(parsed.value) :
                        parsed.value[k] =
                            [question |-> QuestionLine(blocks[i], BlockNumber(i)),
                             answer |-> <<"x", ":", " ", "y">>]
              /\ blocks[i] = QAEmptyFirstBlock => ~HasRecordOf(i)

\* C20 witness: a block with option A written twice, kept with the later
\* text, and a block with a later empty `Correct Answer:` line, dropped
C20_Witness ==
    /\ parser = "parse_mcqs"
    /\ blocks = <<RepeatedOptionBlock, LateEmptyAnswerBlock>>
    /\ Len(parsed.value) = 1
    /\ parsed.value[1].options["A"] = LaterOption

\* C12: the text before the first `Question <digits>:` marker contributes to
\* no record of any parser: each parser returns what it returns for the text
\* from the first marker on, and an empty list for a text without a marker,
\* the empty text included.
C12_TextBeforeFirstMarkerIgnored ==
    parser # "none" =>
        LET marked == RenderBlocks(blocks, 1)
        IN /\ parser = "parse_mcqs" => parsed = parse_mcqs(marked)
           /\ parser = "parse_questions" => parsed = parse_questions(marked)
           /\ parser = "parse_fill_in_the_blanks"
                  => parsed = parse_fill_in_the_blanks(marked)
           /\ blocks = <<>> => parsed = Returned(<<>>)

\* C12 witness: the field lines of a block without a marker, then a marked
\* block, handed to parse_mcqs, which returns one record
C12_Witness ==
    /\ parser = "parse_mcqs"
    /\ completion = UnmarkedBlock \o RenderBlocks(blocks, 1)
    /\ Len(blocks) = 1
    /\ ~parsed.raised
    /\ Len(parsed.value) = 1

(***************************************************************************)
(* Claims about the validators                                            *)
(***************************************************************************)

ReportName == Component(<<"r", "e", "p", "o", "r", "t">>, <<"r", "e", "p", "o", "r", "t">>)
UpperPdfName == Component(<<"P", "D", "F">>, <<"p", "d", "f">>)

\* C10: validate_file accepts a file name exactly when "." followed by the
\* lower-cased text after its last dot (the whole name when it has no dot) is
\* in the allow-list: "report.PDF" passes [".docx", ".pdf"], "report" fails
\* [".docx"].
C10_ValidateFileExtension ==
    validator = "validate_file" =>
        /\ validation = NoException
             <=> InList(<<".">> \o name_parts[Len(name_parts)].lower, allowed_types)
        /\ validation # NoException => validation.status_code = 400
        /\ (name_parts = <<ReportName, UpperPdfName>> /\ allowed_types = ALLOWED_FILE_TYPES)
             => validation = NoException
        /\ (name_parts = <<ReportName>> /\ allowed_types = <<DotDocx>>)
             => validation # NoException

\* C10 witness: "report.PDF" checked against [".docx", ".pdf"] and accepted
C10_Witness ==
    /\ validator = "validate_file"
    /\ name_parts = <<ReportName, UpperPdfName>>
    /\ allowed_types = ALLOWED_FILE_TYPES
    /\ validation = NoException

\* C11: validate_num_questions(n, min, max) fails exactly when n < min or
\* n > max, both limits being accepted: with the limits 1 and 10 it fails
\* for 0 and for 11 and succeeds for each of 1..10.
C11_NumQuestionsInclusive ==
    validator = "validate_num_questions" =>
        LET n == num_args[1].num_questions
            lo == num_args[1].min_val
            hi == num_args[1].max_val
        IN /\ validation = NoException <=> n \in lo..hi
           /\ validation # NoException => validation.status_code = 400
           /\ (lo = 1 /\ hi = 10 /\ n \in {0, 11}) => validation # NoException
           /\ (lo = 1 /\ hi = 10 /\ n \in 1..10) => validation = NoException

\* C11 witness: 10 checked against the limits 1 and 10 and accepted
C11_Witness ==
    /\ validator = "validate_num_questions"
    /\ num_args = Some([num_questions |-> 10, min_val |-> 1, max_val |-> 10])
    /\ validation = NoException

(***************************************************************************)
(* Claims about the truncations                                           *)
(***************************************************************************)

\* the first n characters of a text
FirstChars(text, n) == [i \in 1..n |-> text[i]]

\* C15: truncate_for_llm(text, n) returns exactly the first n characters of
\* text when len(text) > n and text itself otherwise, never with an ellipsis:
\* of a text of 5000 characters it returns 3000 for n = 3000.  truncate_text
\* and get_document_preview return the first n characters followed by "..."
\* when they cut, and text itself otherwise.
C15_TruncationAndEllipsis ==
    truncator # "none" =>
        LET text == text_args.text
            n == IF text_args.max_length # None THEN text_args.max_length[1]
                 ELSE IF truncator = "truncate_for_llm" THEN 3000 ELSE 1000
            cut == IF truncator = "truncate_for_llm" THEN FirstChars(text, n)
                   ELSE FirstChars(text, n) \o <<".", ".", ".">>
        IN /\ Len(text) > n => truncated = cut
           /\ Len(text) <= n => truncated = text
           /\ truncator = "truncate_for_llm" => Len(truncated) <= n
           /\ (truncator = "truncate_for_llm" /\ Len(text) = 5000 /\ n = 3000)
                  => Len(truncated) = 3000

\* C15 witness: a text of 5000 characters cut to 3000 by truncate_for_llm
C15_Witness ==
    /\ truncator = "truncate_for_llm"
    /\ Len(text_args.text) = 5000
    /\ text_args.max_length = Some(3000)
    /\ Len(truncated) = 3000
    /\ truncated # text_args.text

(***************************************************************************)
(* Claims about the handlers                                              *)
(***************************************************************************)

\* the stage s of request r ran and raised nothing
Passed(r, s) ==
    \E k \in 1..Len(trace[r]) :
        trace[r][k].stage = s /\ trace[r][k].exc = NoException

\* the stage s of request r raised an exception
Failed(r, s) ==
    \E k \in 1..Len(trace[r]) :
        trace[r][k].stage = s /\ trace[r][k].exc # NoException

\* the stage s of request r ran before its stage t
Before(r, s, t) ==
    \E i, j \in 1..Len(trace[r]) :
        i < j /\ trace[r][i].stage = s /\ trace[r][j].stage = t

\* C4: a completion call is made for a request only after validate_file,
\* validate_num_questions and validate_document_length succeeded for it: its
\* file name has an allowed extension, its count is in range, its document has
\* the minimum length; when one of them fails no completion call is made.
C4_CompletionAfterValidation ==
    \A r \in Requests :
        /\ invocations[r] # <<>> =>
            /\ Passed(r, "validate_file") /\ Before(r, "validate_file", "generate")
            /\ Passed(r, "validate_num_questions")
            /\ Before(r, "validate_num_questions", "generate")
            /\ Passed(r, "extract_text") /\ Before(r, "extract_text", "generate")
            /\ request[r].filename \in {Some(ReportDocx), Some(ReportPDF)}
            /\ request[r].num_questions \in MIN_QUESTIONS..MAX_QUESTIONS
            /\ request[r].content \in {MinimalUpload, LongUpload}
        /\ (\/ Failed(r, "validate_file")
            \/ Failed(r, "validate_num_questions")
            \/ Failed(r, "extract_text")) => invocations[r] = <<>>

\* C4 witness: a completion call made for a document of exactly the minimum length
C4_Witness ==
    \E r \in Requests :
        /\ Len(invocations[r]) = 1
        /\ request[r].content = MinimalUpload
        /\ Len(invocations[r][1].document_text) = MIN_DOCUMENT_LENGTH

\* C5: a stage that fails is the last stage of its request: the handler is
\* done, the parser was not invoked and the response is not a success.
C5_FailureStopsPipeline ==
    \A r \in Requests :
        \A k \in 1..Len(trace[r]) :
            trace[r][k].exc # NoException =>
                /\ k = Len(trace[r])
                /\ pc[r] = "done"
                /\ ~Passed(r, "parse") /\ ~Passed(r, "respond")
                /\ response[r] # None
                /\ response[r][1].status_code # 200

\* C5 witness: a request that failed in text extraction, after two stages passed
C5_Witness ==
    \E r \in Requests :
        /\ Failed(r, "extract_text")
        /\ Passed(r, "validate_num_questions")
        /\ pc[r] = "done"

\* C6: a request that failed in validation or extraction ends with status
\* 400; one that failed in the completion service or by any other exception
\* ends with status 500 and a detail that carries the exception's message.
C6_StatusOfFailures ==
    \A r \in Requests :
        (pc[r] = "done" /\ trace[r] # <<>>
                        /\ trace[r][Len(trace[r])].exc # NoException) =>
            LET failed == trace[r][Len(trace[r])]
                unexpected ==
                    \/ failed.stage \in {"read", "initialize", "truncate", "generate", "parse"}
                    \/ failed.stage = "validate_file" /\ request[r].filename = None
            IN /\ response[r] # None
               /\ ~unexpected => response[r][1].status_code = 400
               /\ unexpected =>
                    /\ response[r][1].status_code = 500
                    /\ \A i \in 1..Len(StrOf(failed.exc)) :
                          InList(StrOf(failed.exc)[i], response[r][1].body.detail.about)

\* C6 witness: a request whose completion call failed, answered with a 500
C6_Witness ==
    \E r \in Requests :
        /\ pc[r] = "done"
        /\ Failed(r, "generate")
        /\ response[r] # None
        /\ response[r][1].status_code = 500

\* C7: the body of every error response has the three fields status, detail
\* and code, with status = "error".
C7_ErrorBodyShape ==
    \A r \in Requests :
        (response[r] # None /\ response[r][1].status_code # 200) =>
            /\ DOMAIN response[r][1].body = {"status", "detail", "code"}
            /\ response[r][1].body.status = "error"

\* the number of records the completion of request r states for its endpoint
StatedCount(r) ==
    LET p == IF request[r].endpoint = "generate-mcqs" THEN "parse_mcqs"
             ELSE "parse_questions"
    IN IF \E b \in CompleteFor(p) : result[r] = RenderBlock(b, 1) THEN 1 ELSE 0

\* C8: once the completion call has returned a text, no later stage fails and
\* the request ends with a success whose num_questions_generated is the length
\* of its questions (zero included) and whose raw_response is that text.
C8_SuccessCarriesCompletion ==
    \A r \in Requests :
        Passed(r, "generate") =>
            /\ \A k \in 1..Len(trace[r]) : trace[r][k].exc = NoException
            /\ pc[r] = "done" =>
                /\ response[r] # None
                /\ response[r][1].status_code = 200
                /\ response[r][1].body.status = "success"
                /\ response[r][1].body.num_questions_generated
                        = Len(response[r][1].body.questions)
                /\ response[r][1].body.num_questions_generated = StatedCount(r)
                /\ response[r][1].body.raw_response = result[r]

\* C8 witness: a completion that parses to no record, answered with a success
C8_Witness ==
    \E r \in Requests :
        /\ pc[r] = "done"
        /\ Passed(r, "generate")
        /\ result[r] = RenderBlock(ThreeOptionBlock, 1)
        /\ response[r] # None
        /\ response[r][1].status_code = 200
        /\ response[r][1].body.questions = <<>>

\* C16: the completion service is invoked at most once for a request; when
\* that invocation fails, it is the last stage of the request, which ends at
\* once with an error response and no second invocation.
C16_AtMostOneCompletionCall ==
    \A r \in Requests :
        /\ Len(invocations[r]) <= 1
        /\ Cardinality({k \in 1..Len(trace[r]) : trace[r][k].stage = "generate"})
               = Len(invocations[r])
        /\ Failed(r, "generate") =>
               /\ trace[r][Len(trace[r])].stage = "generate"
               /\ pc[r] = "done"
               /\ Len(invocations[r]) = 1
               /\ response[r] # None
               /\ response[r][1].status_code = 500

\* C16 witness: a request done after its one completion call failed
C16_Witness ==
    \E r \in Requests :
        /\ pc[r] = "done"
        /\ trace[r][Len(trace[r])] =
               [stage |-> "generate", exc |-> OtherException("Exception", "provider error")]
        /\ Len(invocations[r]) = 1

\* what the provider did for request r: whether it built a client, and the
\* text its completion call returned
BuiltFor(r) == llm_service[r] # None /\ llm_service[r][1].llm
CompletedFor(r) == IF Passed(r, "generate") THEN Some(result[r]) ELSE None

\* C17: of two requests handled at the same time, under every interleaving of
\* their stages, each ends with the response its handler gives when run alone
\* on the same request with the same provider behaviour; its LLMService holds
\* its own credential, and its completion call is made with that credential
\* and with its own template, document and count.
C17_RequestsAreIndependent ==
    \A r \in Requests :
        /\ pc[r] = "done" =>
               response[r] = Some(RunHandler(request[r], BuiltFor(r), CompletedFor(r)))
        /\ llm_service[r] # None =>
               llm_service[r][1].api_key = request[r].groq_api_key
        /\ \A k \in 1..Len(invocations[r]) :
               invocations[r][k] =
                   [template |-> TemplateOf(request[r].endpoint),
                    document_text |->
                        truncate_for_llm(
                            extract_text(request[r].filename[1], request[r].content).value,
                            Some(MAX_DOCUMENT_LENGTH)),
                    num_questions |-> request[r].num_questions,
                    api_key |-> request[r].groq_api_key]

\* C17 witness: two requests with different credentials at different
\* endpoints, both done after a completion call, one answered with a success
\* and the other with an error
C17_Witness ==
    /\ pc[1] = "done" /\ pc[2] = "done"
    /\ request[1].groq_api_key # request[2].groq_api_key
    /\ request[1].endpoint # request[2].endpoint
    /\ Len(invocations[1]) = 1 /\ Len(invocations[2]) = 1
    /\ response[1] # None /\ response[1][1].status_code = 200
    /\ response[2] # None /\ response[2][1].status_code = 500

\* the text of an upload that passes extraction: its non-blank paragraphs or
\* pages, an empty line between them
StatedDocument(upload) ==
    CASE upload = MinimalUpload ->
            Chars(4) \o <<"\n", "\n">> \o Chars(MIN_DOCUMENT_LENGTH - 6)
      [] upload = LongUpload -> Chars(MAX_DOCUMENT_LENGTH + 1)

\* C19: the document text handed to a completion call, and the handler's
\* document_text once extract_text and truncate_for_llm have passed, has
\* between MIN_DOCUMENT_LENGTH (10) and MAX_DOCUMENT_LENGTH (3000) characters,
\* both included, and is a prefix of the text extracted from the upload.
C19_DocumentHandedToCompletion ==
    \A r \in Requests :
        LET extracted == StatedDocument(request[r].content)
            Bounded(d) ==
                /\ Len(d) >= 10 /\ Len(d) <= 3000
                /\ Len(d) <= Len(extracted)
                /\ d = SubSeq(extracted, 1, Len(d))
        IN /\ Passed(r, "truncate") => Bounded(document_text[r])
           /\ \A k \in 1..Len(invocations[r]) :
                  Bounded(invocations[r][k].document_text)

\* C19 witness: a document one character over the maximum, cut to the maximum
\* and handed to the completion call
C19_Witness ==
    \E r \in Requests :
        /\ request[r].content = LongUpload
        /\ Len(invocations[r]) = 1
        /\ Len(invocations[r][1].document_text) = MAX_DOCUMENT_LENGTH

\* the message of the exception each extractor raises for an upload, "" when
\* it returns the text
StatedFailure(extractor, upload) ==
    IF upload = MinimalUpload THEN ""
    ELSE IF extractor = "docx" THEN "Failed to read DOCX document: {str(e)}"
    ELSE IF upload = NoPartsUpload THEN "PDF document is empty"
    ELSE "Failed to read PDF document: {str(e)}"

DocxName == Component(<<"d", "o", "c", "x">>, <<"d", "o", "c", "x">>)

\* C21: validate_file accepts a file name without a dot exactly when "." and
\* the whole lower-cased name is an allowed extension: "docx" and "PDF" pass
\* [".docx", ".pdf"]; extract_text_from_file then hands such a file to the
\* Word or the PDF extractor, whose result or failure it gives, and never
\* rejects it as unsupported.
C21_DotlessNamesAccepted ==
    (validator \in {"validate_file", "extract_text_from_file"} /\ Len(name_parts) = 1) =>
        LET lower == name_parts[1].lower
            extractor == IF lower = DocxName.lower THEN "docx" ELSE "pdf"
        IN /\ validation = NoException <=> InList(<<".">> \o lower, allowed_types)
           /\ (name_parts \in {<<DocxName>>, <<UpperPdfName>>}
                  /\ allowed_types = ALLOWED_FILE_TYPES) => validation = NoException
           /\ (validator = "extract_text_from_file"
                  /\ lower \in {DocxName.lower, UpperPdfName.lower}) =>
                 /\ extraction.exc.detail.text = StatedFailure(extractor, file_content)
                 /\ file_content = MinimalUpload =>
                        /\ extraction.exc = NoException
                        /\ extraction.value = StatedDocument(file_content)
                 /\ file_content # MinimalUpload => extraction.exc.status_code = 400

\* C21 witness: "PDF" accepted against [".docx", ".pdf"], then an upload
\* without pages refused by the PDF extractor
C21_Witness ==
    /\ validator = "extract_text_from_file"
    /\ name_parts = <<UpperPdfName>>
    /\ allowed_types = ALLOWED_FILE_TYPES
    /\ validation = NoException
    /\ file_content = NoPartsUpload
    /\ extraction.exc.detail.text = "PDF document is empty"

====
